---- MODULE Spec2Model ----
(***************************************************************************)
(* A model of the commit-graph index (commitgraph.MemoryIndex), of the     *)
(* graph-backed commit walker (graphCommitNodeIndex), of the index builder *)
(* (buildCommitGraph / addCommitToIndex / createBloomFilter) and of the    *)
(* history query getLastCommitForPaths of                                  *)
(* src/plumbing/object/commitnode.go.                                      *)
(*                                                                         *)
(* Commit hashes are the integers 1..MaxCommits and plumbing.ZeroHash is   *)
(* 0.  Positions in the index are 0-based as in the Go code: position p is *)
(* commitData[p + 1].  A path is the sequence of its segments, so that     *)
(* treePath + "/" + path is treePath \o path and "" is <<>>.               *)
(***************************************************************************)
EXTENDS Integers, Sequences, FiniteSets, TLC

\* ------------------------------------------------------------------ bounds
\* commits in the object store
MaxCommits == 3
\* parents of one commit
MaxParents == 2
\* content versions of one file (0 is "absent")
MaxHash == 2
\* nodes ever appended to one MemoryIndex by the Add action
MaxNodes == 2
\* handles mmap.Open hands out in one run of the storage
MaxHandles == 2
\* distinct indexes a caller may store (versions 1..MaxVersions)
MaxVersions == 2
\* Close calls on one handle
MaxCloses == 2

VARIABLES
    n,          \* object store: the commits are 1..n, n is the newest
    parents,    \* object store: commit -> its ParentHashes, in declared order
    tree,       \* object store: commit -> the content of its tree
    when,       \* object store: commit -> Committer.When
    bad,        \* object store: the hashes of the trees that cannot be decoded
    commitData, \* MemoryIndex.commitData
    indexMap,   \* MemoryIndex.indexMap
    lastOp,     \* the last call made on the index or the walker, and its result
    treePath,   \* getLastCommitForPaths: argument treePath
    paths,      \* getLastCommitForPaths: argument paths
    run,        \* getLastCommitForPaths: the state of the invocation
    iter,       \* the parentCommitNodeIter a caller holds
    cgs         \* a CommitGraphStorage, its file and the handles opened on it

vars == <<n, parents, tree, when, bad, commitData, indexMap, lastOp,
          treePath, paths, run, iter, cgs>>

repoVars == <<n, parents, tree, when, bad>>
indexVars == <<commitData, indexMap>>
queryVars == <<treePath, paths, run>>

\* ------------------------------------------------------------ basic values
ZeroHash == 0
Hashes == 1..MaxCommits

Range(s) == {s[k] : k \in 1..Len(s)}

\* sequences over S of length at most MaxParents, without repetition
ParentSeqs(S) ==
    {s \in UNION {[1..k -> S] : k \in 0..MaxParents} :
        \A i, j \in 1..Len(s) : i # j => s[i] # s[j]}

\* every ancestry over the commits 1..m: parents are older commits (acyclic)
\* and every commit is an ancestor of the newest one
RECURSIVE AncestorsOf(_, _)
AncestorsOf(par, c) ==
    {c} \cup UNION {AncestorsOf(par, par[c][k]) : k \in 1..Len(par[c])}

Ancestries(m) ==
    {par \in [1..m -> ParentSeqs(1..m)] :
        /\ \A c \in 1..m : \A k \in 1..Len(par[c]) : par[c][k] < c
        /\ AncestorsOf(par, m) = 1..m}

\* ------------------------------------------------------------------- trees
\* A tree holds at most the file "a", the directory "d" and the file "d/f".
\* Its content is [a, f]: the blob hash of each file, ZeroHash when absent.
Trees == [a : 0..MaxHash, f : 0..MaxHash]

DirHash(f) == 10 + f
RootHash(t) == 100 + 10 * t.a + t.f

DefaultTree == [a |-> 1, f |-> 0]

AllPaths == {<<>>, <<"a">>, <<"d">>, <<"d", "f">>, <<"f">>}

\* Tree.FindEntry(path) on the root tree t: the entry's hash, ZeroHash when
\* there is no such entry
FindEntry(t, path) ==
    CASE path = <<"a">> -> t.a
      [] path = <<"d">> -> IF t.f = ZeroHash THEN ZeroHash ELSE DirHash(t.f)
      [] path = <<"d", "f">> -> t.f
      [] OTHER -> ZeroHash

\* object.NewTreeWalker(t, true, nil): every entry of t, directories included
TreeEntries(t) == {p \in AllPaths : FindEntry(t, p) # ZeroHash}

\* --------------------------------------------------------------- MemoryIndex
\* a node's path filter: nil, or the set of the names added to it
NoBloom == [has |-> FALSE, names |-> {}]
Bloom(names) == [has |-> TRUE, names |-> names]

Node(treeHash, parentHashes, time) ==
    [TreeHash |-> treeHash, ParentHashes |-> parentHashes,
     ParentIndexes |-> <<>>, When |-> time, bloom |-> NoBloom]

\* GetIndexByHash: [err, pos]
GetIndexByHash(map, h) ==
    IF h \in DOMAIN map
    THEN [err |-> "nil", pos |-> map[h]]
    ELSE [err |-> "ErrObjectNotFound", pos |-> 0]

\* GetNodeByIndex: [err, pos]; the node is data[pos + 1].  A negative i passes
\* the bound check and indexes the slice out of range: a run-time panic.
GetNodeByIndex(data, i) ==
    IF i >= Len(data) THEN [err |-> "ErrObjectNotFound", pos |-> 0]
    ELSE IF i < 0 THEN [err |-> "panic", pos |-> 0]
    ELSE [err |-> "nil", pos |-> i]

\* the loop of Add over node.ParentHashes: the error of the first lookup that
\* fails, else the parent positions
MapParents(map, parentHashes) ==
    IF \E k \in 1..Len(parentHashes) : parentHashes[k] \notin DOMAIN map
    THEN [err |-> "ErrObjectNotFound", parentIndexes |-> <<>>]
    ELSE [err |-> "nil",
          parentIndexes |-> [k \in 1..Len(parentHashes) |->
                                GetIndexByHash(map, parentHashes[k]).pos]]

\* indexMap[hash] = len(commitData)
SetPosition(map, hash, pos) ==
    [h \in DOMAIN map \cup {hash} |-> IF h = hash THEN pos ELSE map[h]]

\* MemoryIndex.Add on the index [data, map]: [err, data, map]
AddNode(data, map, hash, node) ==
    LET m == MapParents(map, node.ParentHashes) IN
    IF m.err # "nil"
    THEN [err |-> m.err, data |-> data, map |-> map]
    ELSE [err |-> "nil",
          data |-> Append(data, [node EXCEPT !.ParentIndexes = m.parentIndexes]),
          map |-> SetPosition(map, hash, Len(data))]

\* ------------------------------------------------------------------ walker
\* A CommitNode: a decoded *Commit ("object") or a *graphCommitNode ("graph",
\* whose node is commitData[index + 1]).
NilNode == [kind |-> "nil", hash |-> ZeroHash, index |-> -1]
ObjectNode(h) == [kind |-> "object", hash |-> h, index |-> -1]
GraphNode(h, pos) == [kind |-> "graph", hash |-> h, index |-> pos]

\* GetCommit(s, h): the decoded commit, else plumbing.ErrObjectNotFound
GetCommit(store, h) ==
    IF h \in store
    THEN [err |-> "nil", node |-> ObjectNode(h)]
    ELSE [err |-> "ErrObjectNotFound", node |-> NilNode]

\* a walker that answers an index-backed node with its parents' positions
ParentHashesByPosition(data, par, node) ==
    IF node.kind = "graph" THEN data[node.index + 1].ParentIndexes
    ELSE par[node.hash]

\* graphCommitNodeIndex.ParentHashes
ParentHashesOf(data, par, node) ==
    IF node.kind = "graph" THEN data[node.index + 1].ParentHashes
    ELSE par[node.hash]

\* graphCommitNodeIndex.NumParents
NumParents(data, par, node) ==
    IF node.kind = "graph" THEN Len(data[node.index + 1].ParentIndexes)
    ELSE Len(par[node.hash])

\* ParentNode, the branch of an index-backed node
GraphParentNode(data, node, i) ==
    LET cgn == data[node.index + 1] IN
    IF Len(cgn.ParentIndexes) = 0 \/ i >= Len(cgn.ParentIndexes)
    THEN [err |-> "ErrParentNotFound", node |-> NilNode]
    ELSE IF i < 0 THEN [err |-> "panic", node |-> NilNode]
    ELSE LET parent == GetNodeByIndex(data, cgn.ParentIndexes[i + 1]) IN
         IF parent.err # "nil" THEN [err |-> parent.err, node |-> NilNode]
         ELSE [err |-> "nil",
               node |-> GraphNode(cgn.ParentHashes[i + 1], cgn.ParentIndexes[i + 1])]

\* ObjectParentNode without the fallback: a parent the index lacks is reported
\* as a missing parent
ObjectParentNodeNoFallback(data, map, par, node, i) ==
    LET hashes == par[node.hash] IN
    IF Len(hashes) = 0 \/ i >= Len(hashes)
    THEN [err |-> "ErrParentNotFound", node |-> NilNode]
    ELSE IF i < 0 THEN [err |-> "panic", node |-> NilNode]
    ELSE LET found == GetIndexByHash(map, hashes[i + 1]) IN
         IF found.err = "nil"
         THEN [err |-> "nil", node |-> GraphNode(hashes[i + 1], found.pos)]
         ELSE [err |-> "ErrParentNotFound", node |-> NilNode]

\* ParentNode, the branch of a decoded commit: the graph index first, then the
\* object store
ObjectParentNode(data, map, par, node, i) ==
    LET hashes == par[node.hash] IN
    IF Len(hashes) = 0 \/ i >= Len(hashes)
    THEN [err |-> "ErrParentNotFound", node |-> NilNode]
    ELSE IF i < 0 THEN [err |-> "panic", node |-> NilNode]
    ELSE LET parentHash == hashes[i + 1]
             found == GetIndexByHash(map, parentHash)
         IN  IF found.err = "nil"
             THEN LET parent == GetNodeByIndex(data, found.pos) IN
                  IF parent.err # "nil" THEN [err |-> parent.err, node |-> NilNode]
                  ELSE [err |-> "nil", node |-> GraphNode(parentHash, found.pos)]
             ELSE GetCommit(DOMAIN par, parentHash)

\* graphCommitNodeIndex.ParentNode: [err, node]
ParentNode(data, map, par, node, i) ==
    IF node.kind = "graph" THEN GraphParentNode(data, node, i)
    ELSE ObjectParentNode(data, map, par, node, i)

\* graphCommitNodeIndex.Commit: the decoded commit of the node, [err, hash]
GraphCommit(store, node) ==
    IF node.kind = "graph"
    THEN LET r == GetCommit(store, node.hash) IN [err |-> r.err, hash |-> r.node.hash]
    ELSE [err |-> "nil", hash |-> node.hash]

\* objectCommitNodeIndex: every node is a decoded commit
ObjectOnlyNumParents(par, node) == Len(par[node.hash])

ObjectOnlyParentHashes(par, node) == par[node.hash]

ObjectOnlyCommit(node) == [err |-> "nil", hash |-> node.hash]

\* objectCommitNodeIndex.ParentNode: co.Parent(i), the i-th parent decoded
\* from the object store
ObjectOnlyParentNode(par, node, i) ==
    LET hashes == par[node.hash] IN
    IF Len(hashes) = 0 \/ i >= Len(hashes)
    THEN [err |-> "ErrParentNotFound", node |-> NilNode]
    ELSE IF i < 0 THEN [err |-> "panic", node |-> NilNode]
    ELSE GetCommit(DOMAIN par, hashes[i + 1])

\* what a walker says about one node: [NumParents, ParentHashes, Commit]
GraphFacts(data, par, node) ==
    [NumParents |-> NumParents(data, par, node),
     ParentHashes |-> ParentHashesOf(data, par, node),
     Commit |-> GraphCommit(DOMAIN par, node)]

ObjectOnlyFacts(par, node) ==
    [NumParents |-> ObjectOnlyNumParents(par, node),
     ParentHashes |-> ObjectOnlyParentHashes(par, node),
     Commit |-> ObjectOnlyCommit(node)]

\* the IDs of the nodes a caller meets walking parents depth first from node,
\* parent 0 first, with either walker; a failed ParentNode ends the walk with
\* ZeroHash
RECURSIVE WalkGraph(_, _, _, _, _)
WalkGraph(data, map, par, node, i) ==
    IF i >= NumParents(data, par, node) THEN <<>>
    ELSE LET r == ParentNode(data, map, par, node, i) IN
         IF r.err # "nil" THEN <<ZeroHash>>
         ELSE <<r.node.hash>> \o WalkGraph(data, map, par, r.node, 0)
                  \o WalkGraph(data, map, par, node, i + 1)

RECURSIVE WalkObjectOnly(_, _, _)
WalkObjectOnly(par, node, i) ==
    IF i >= ObjectOnlyNumParents(par, node) THEN <<>>
    ELSE LET r == ObjectOnlyParentNode(par, node, i) IN
         IF r.err # "nil" THEN <<ZeroHash>>
         ELSE <<r.node.hash>> \o WalkObjectOnly(par, r.node, 0)
                  \o WalkObjectOnly(par, node, i + 1)

\* ------------------------------------------------------------ tree lookups
\* a map[string]plumbing.Hash: a missing key reads as ZeroHash
EmptyMap == [p \in AllPaths |-> ZeroHash]

\* the tree a root tree hash names
TreeByHash(h) == CHOOSE t \in Trees : RootHash(t) = h

\* CommitNode.Tree(): GetTree(s, TreeHash) for an index-backed node, the
\* decoded commit's tree otherwise: [err, t]
TreeOf(data, node) ==
    LET h == IF node.kind = "graph" THEN data[node.index + 1].TreeHash
             ELSE RootHash(tree[node.hash])
    IN  IF h \in bad THEN [err |-> "ErrDecode", t |-> DefaultTree]
        ELSE [err |-> "nil", t |-> TreeByHash(h)]

\* getCommitTree: [err, t, at]: the tree of the commit narrowed to treePath;
\* tree.Tree(treePath) answers ErrDirectoryNotFound unless treePath names a
\* directory of the tree
GetCommitTree(data, node, tp) ==
    LET tr == TreeOf(data, node) IN
    IF tr.err # "nil" THEN tr
    ELSE IF tp # <<>> /\ ~(tp = <<"d">> /\ FindEntry(tr.t, tp) # ZeroHash)
    THEN [err |-> "ErrDirectoryNotFound", t |-> tr.t]
    ELSE tr

\* getFileHashes: [err, hashes]
GetFileHashes(data, node, tp, ps) ==
    LET tr == GetCommitTree(data, node, tp) IN
    IF tr.err = "ErrDirectoryNotFound" THEN [err |-> "nil", hashes |-> EmptyMap]
    ELSE IF tr.err # "nil" THEN [err |-> tr.err, hashes |-> EmptyMap]
    ELSE [err |-> "nil",
          hashes |-> [p \in AllPaths |->
              IF p \notin Range(ps) THEN ZeroHash
              ELSE IF p # <<>> THEN FindEntry(tr.t, tp \o p)
              ELSE IF tp = <<>> THEN RootHash(tr.t)
              ELSE FindEntry(tr.t, tp)]]

\* ------------------------------------------------------------ index builder
\* a filter of the second walk only: the names left in aHashes are not added
CreateBloomFilterOfB(a, b) ==
    {name \in TreeEntries(b) : FindEntry(a, name) # FindEntry(b, name)}

\* createBloomFilter(a, b): the names whose entry differs between the trees a
\* and b, added or removed ones included
CreateBloomFilter(a, b) ==
    {name \in TreeEntries(b) : FindEntry(a, name) # FindEntry(b, name)}
        \cup (TreeEntries(a) \ TreeEntries(b))

\* AddWithBloom: Add, and the filter attached to the node
AddWithBloom(data, map, hash, node, filter) ==
    AddNode(data, map, hash, [node EXCEPT !.bloom = filter])

\* the filter addCommitToIndex computes: against the first parent, nil for a
\* commit without parents or when a tree cannot be read
BloomOfCommit(c) ==
    IF Len(parents[c]) = 0 THEN NoBloom
    ELSE IF RootHash(tree[c]) \in bad \/ RootHash(tree[parents[c][1]]) \in bad
    THEN NoBloom
    ELSE Bloom(CreateBloomFilter(tree[parents[c][1]], tree[c]))

\* addCommitToIndex on the builder state st = [data, map, seen, err]
RECURSIVE AddCommitToIndex(_, _)
RECURSIVE AddParentsToIndex(_, _, _)
AddParentsToIndex(st, c, k) ==
    IF k > Len(parents[c]) \/ st.err # "nil" THEN st
    ELSE AddParentsToIndex(AddCommitToIndex(st, parents[c][k]), c, k + 1)

\* a builder that adds the commit itself before its parents
AddCommitToIndexSelfFirst(st, c) ==
    IF c \in st.seen THEN st
    ELSE LET r == AddWithBloom(st.data, st.map, c,
                      Node(RootHash(tree[c]), parents[c], when[c]),
                      BloomOfCommit(c))
         IN  AddParentsToIndex([st EXCEPT !.seen = @ \cup {c}, !.data = r.data,
                                          !.map = r.map, !.err = r.err], c, 1)

\* addCommitToIndex(idx, c, seen): the parents first, then the commit
AddCommitToIndex(st, c) ==
    IF c \in st.seen THEN st
    ELSE LET st1 == AddParentsToIndex([st EXCEPT !.seen = @ \cup {c}], c, 1) IN
         IF st1.err # "nil" THEN st1
         ELSE LET r == AddWithBloom(st1.data, st1.map, c,
                           Node(RootHash(tree[c]), parents[c], when[c]),
                           BloomOfCommit(c))
              IN  [st1 EXCEPT !.data = r.data, !.map = r.map, !.err = r.err]

\* buildCommitGraph(c)
BuildCommitGraph(c) ==
    AddCommitToIndex([data |-> <<>>, map |-> <<>>, seen |-> {}, err |-> "nil"], c)

\* ---------------------------------------------------- getLastCommitForPaths
\* CommitNode.CommitTime()
CommitTime(data, node) ==
    IF node.kind = "graph" THEN data[node.index + 1].When ELSE when[node.hash]

\* a commitAndPaths
Entry(node, ps, hashes) == [commit |-> node, paths |-> ps, hashes |-> hashes]

\* index.BloomFilter(commit): the filter of an index-backed node, none for a
\* decoded commit
BloomFilter(data, node) ==
    IF node.kind = "graph" THEN data[node.index + 1].bloom ELSE NoBloom

\* BloomPathFilter.Test: true for every name added, and for the false
\* positives fps of this filter
BloomTest(filter, path, fps) == path \in filter.names \/ path \in fps

\* canSkipCommit
CanSkipCommit(data, node, tp, ps, fps) ==
    LET bloom == BloomFilter(data, node) IN
    IF ~bloom.has THEN FALSE
    ELSE \A k \in 1..Len(ps) : ~BloomTest(bloom, tp \o ps[k], fps)

\* the loop over index.ParentNode(current.commit, i): the parents loaded
\* before the first error
RECURSIVE LoadParents(_, _, _, _, _)
LoadParents(data, map, node, i, acc) ==
    IF i >= NumParents(data, parents, node) THEN acc
    ELSE LET r == ParentNode(data, map, parents, node, i) IN
         IF r.err # "nil" THEN acc
         ELSE LoadParents(data, map, node, i + 1, Append(acc, r.node))

\* the heap's comparator puts no entry before one with a later commit time:
\* Pop returns an entry such that no entry of the heap is later
PopChoices(data, heap) ==
    {k \in 1..Len(heap) :
        \A j \in 1..Len(heap) :
            ~(CommitTime(data, heap[k].commit) < CommitTime(data, heap[j].commit))}

RemoveAt(seq, k) == [j \in 1..(Len(seq) - 1) |-> IF j < k THEN seq[j] ELSE seq[j + 1]]

NoStep ==
    [kind |-> "none", commit |-> NilNode, paths |-> <<>>, hashes |-> EmptyMap,
     parents |-> <<>>, parentHashes |-> <<>>, recorded |-> {}, pushed |-> <<>>]

\* no invocation yet
IdleRun ==
    [pc |-> "idle", heap |-> <<>>, seen |-> {}, resultNodes |-> <<>>,
     err |-> "nil", result |-> <<>>, popped |-> <<>>, failed |-> FALSE,
     last |-> NoStep]

\* the state of an invocation before the loop: initialHashes and the first Push
StartRun(data, c, tp, ps) ==
    LET fh == GetFileHashes(data, ObjectNode(c), tp, ps) IN
    [pc |-> IF fh.err = "nil" THEN "loop" ELSE "done",
     heap |-> IF fh.err = "nil" THEN <<Entry(ObjectNode(c), ps, fh.hashes)>> ELSE <<>>,
     seen |-> {},
     resultNodes |-> <<>>,
     err |-> fh.err,
     result |-> <<>>,
     popped |-> <<>>,
     failed |-> FALSE,
     last |-> NoStep]

\* the position of the first parent whose getFileHashes fails, Len + 1 if none
FirstFailure(fh) ==
    IF \E j \in 1..Len(fh) : fh[j].err # "nil"
    THEN CHOOSE j \in 1..Len(fh) :
            /\ fh[j].err # "nil"
            /\ \A i \in 1..(j - 1) : fh[i].err = "nil"
    ELSE Len(fh) + 1

\* a switch that credits the current commit whenever a parent's hash differs,
\* merges included
PathResolvedOnChange(numOfParentsWithPath, pathChanged) ==
    numOfParentsWithPath = 0 \/ pathChanged

\* switch numOfParentsWithPath[i]: TRUE when the current commit is credited
\* with the path (case 0, and case 1 when the path changed), FALSE when the
\* path goes to remainingPaths (case 1 unchanged, and default)
PathResolved(numOfParentsWithPath, pathChanged) ==
    \/ numOfParentsWithPath = 0
    \/ numOfParentsWithPath = 1 /\ pathChanged

\* the general case of one iteration, for the popped entry cur whose parents
\* are ps: [resultNodes, pushed, parentHashes, recorded, failed]
GeneralCase(data, r, cur, pars, tp) ==
    LET fh == [j \in 1..Len(pars) |-> GetFileHashes(data, pars[j], tp, cur.paths)]
        fail == FirstFailure(fh)
        \* a map the loop never assigned is nil and reads as ZeroHash
        parentHashes == [j \in 1..Len(pars) |->
                            IF j <= fail THEN fh[j].hashes ELSE EmptyMap]
        numOfParentsWithPath(p) ==
            Cardinality({j \in 1..(fail - 1) : parentHashes[j][p] # ZeroHash})
        pathChanged(p) ==
            \E j \in 1..(fail - 1) :
                /\ parentHashes[j][p] # ZeroHash
                /\ parentHashes[j][p] # cur.hashes[p]
        Resolved(p) == PathResolved(numOfParentsWithPath(p), pathChanged(p))
        recorded == {p \in Range(cur.paths) : Resolved(p)} \ DOMAIN r.resultNodes
        Remains(p) == ~Resolved(p)
        remainingPaths == SelectSeq(cur.paths, Remains)
        seenNow == r.seen \cup {cur.commit.hash}
        Unseen(j) == pars[j].hash \notin seenNow
        ForParent(j) ==
            LET OnParent(p) == parentHashes[j][p] # ZeroHash IN
            Entry(pars[j], SelectSeq(remainingPaths, OnParent), parentHashes[j])
        RECURSIVE Pushes(_, _)
        Pushes(j, acc) ==
            IF j > Len(pars) THEN acc
            ELSE Pushes(j + 1, IF Unseen(j) THEN Append(acc, ForParent(j)) ELSE acc)
    IN  [resultNodes |-> [p \in DOMAIN r.resultNodes \cup recorded |->
                            IF p \in DOMAIN r.resultNodes THEN r.resultNodes[p]
                            ELSE cur.commit],
         pushed |-> IF Len(remainingPaths) > 0 THEN Pushes(1, <<>>) ELSE <<>>,
         parentHashes |-> parentHashes,
         recorded |-> recorded,
         failed |-> fail <= Len(pars)]

\* a loop that skips no entry
NeverSeen(r, cur) == FALSE

\* if seen[current.commit.ID()] { continue }
AlreadySeen(r, cur) == cur.commit.hash \in r.seen

\* one iteration of the loop: Pop gave heap[k]; skipOn says whether the fast
\* path is compiled in; fps are the false positives of the filter consulted
StepRun(data, map, r, k, tp, skipOn, fps) ==
    LET cur == r.heap[k]
        rest == RemoveAt(r.heap, k)
        r1 == [r EXCEPT !.heap = rest,
                        !.popped = Append(@, CommitTime(data, cur.commit))]
        step == [NoStep EXCEPT !.commit = cur.commit, !.paths = cur.paths,
                               !.hashes = cur.hashes]
    IN
    IF AlreadySeen(r, cur)
    THEN [r1 EXCEPT !.last = [step EXCEPT !.kind = "seen"]]
    ELSE
    LET numParents == NumParents(data, parents, cur.commit)
        pars == LoadParents(data, map, cur.commit, 0, <<>>)
        r2 == [r1 EXCEPT !.seen = @ \cup {cur.commit.hash}]
    IN
    IF numParents = 1 /\ skipOn /\ CanSkipCommit(data, cur.commit, tp, cur.paths, fps)
    THEN IF Len(pars) = 0
         THEN \* parents[0] of an empty slice
              [r2 EXCEPT !.pc = "done", !.err = "panic",
                         !.last = [step EXCEPT !.kind = "skip"]]
         ELSE LET e == Entry(pars[1], cur.paths, cur.hashes) IN
              [r2 EXCEPT !.heap = Append(@, e),
                         !.last = [step EXCEPT !.kind = "skip", !.parents = pars,
                                               !.pushed = <<e>>]]
    ELSE LET g == GeneralCase(data, r2, cur, pars, tp) IN
         [r2 EXCEPT !.heap = @ \o g.pushed,
                    !.resultNodes = g.resultNodes,
                    !.failed = @ \/ g.failed,
                    !.last = [step EXCEPT !.kind = "general", !.parents = pars,
                                          !.parentHashes = g.parentHashes,
                                          !.recorded = g.recorded,
                                          !.pushed = g.pushed]]

\* index.Commit(node) for every recorded node, and the return
FinishRun(r) ==
    IF \E p \in DOMAIN r.resultNodes :
          r.resultNodes[p].kind = "graph" /\ r.resultNodes[p].hash \notin DOMAIN parents
    THEN [r EXCEPT !.pc = "done", !.err = "ErrObjectNotFound", !.last = NoStep]
    ELSE [r EXCEPT !.pc = "done", !.err = "nil", !.last = NoStep,
                   !.result = [p \in DOMAIN r.resultNodes |-> r.resultNodes[p].hash]]

\* ------------------------------------------------------ parent iterator
\* a parentCommitNodeIter{gci, node, i}; made is FALSE while no iterator exists
NoIter == [made |-> FALSE, node |-> NilNode, i |-> 0]

\* newParentgraphCommitNodeIter(gci, node)
NewParentIter(node) == [made |-> TRUE, node |-> node, i |-> 0]

\* a Next that moves on whatever ParentNode answered
IterNextAlwaysAdvance(data, map, par, it) ==
    LET r == ParentNode(data, map, par, it.node, it.i) IN
    IF r.err = "ErrParentNotFound"
    THEN [err |-> "EOF", node |-> NilNode, iter |-> [it EXCEPT !.i = @ + 1]]
    ELSE [err |-> r.err, node |-> r.node, iter |-> [it EXCEPT !.i = @ + 1]]

\* parentCommitNodeIter.Next: [err, node, iter]
IterNext(data, map, par, it) ==
    LET r == ParentNode(data, map, par, it.node, it.i) IN
    IF r.err = "ErrParentNotFound"
    THEN [err |-> "EOF", node |-> NilNode, iter |-> it]
    ELSE [err |-> r.err, node |-> r.node,
          iter |-> IF r.err = "nil" THEN [it EXCEPT !.i = @ + 1] ELSE it]

\* the callbacks: cb returns cb.err on its cb.at-th invocation and nil on the
\* others
CallbackResult(cb, invocation) == IF invocation = cb.at THEN cb.err ELSE "nil"

\* a ForEach that takes the stop signal for an error
ForEachStopIsError(cbErr) == cbErr

\* what ForEach returns for the error cbErr # nil of the callback: nil for
\* storer.ErrStop
ForEachCallbackError(cbErr) == IF cbErr = "ErrStop" THEN "nil" ELSE cbErr

\* parentCommitNodeIter.ForEach(cb), visited being the nodes cb was invoked
\* with so far: [err, iter, visited]
RECURSIVE ForEach(_, _, _, _, _, _)
ForEach(data, map, par, it, cb, visited) ==
    LET nx == IterNext(data, map, par, it) IN
    IF nx.err # "nil"
    THEN [err |-> IF nx.err = "EOF" THEN "nil" ELSE nx.err,
          iter |-> nx.iter, visited |-> visited]
    ELSE LET v == Append(visited, nx.node)
             cbErr == CallbackResult(cb, Len(v))
         IN  IF cbErr # "nil"
             THEN [err |-> ForEachCallbackError(cbErr), iter |-> nx.iter,
                   visited |-> v]
             ELSE ForEach(data, map, par, nx.iter, cb, v)

\* --------------------------------------------------- CommitGraphStorage
\* The storage s = [commitGraph, file], the file system's commit-graph file
\* disk = [exists, version] (version 0: not a parsable index) and, for every
\* handle mmap.Open returned (1, 2, ..), its state and the Close calls on it.
\* An index parsed from a file is [handle, version]: the handle it reads and
\* the version it found.
NoIndex == [handle |-> 0, version |-> 0]

NewStorage ==
    [commitGraph |-> NoIndex, file |-> 0,
     disk |-> [exists |-> FALSE, version |-> 0], handles |-> <<>>]

\* what Close may do to a mapping: release it; fail and leave it mapped; fail
\* after the mapping is gone
CloseOutcomes == {"ok", "failedOpen", "failedClosed"}

\* (*mmap.ReaderAt).Close on the handle h: [st, err]
CloseHandle(st, h, outcome) ==
    [st |-> [st EXCEPT !.handles[h] =
                [state |-> IF outcome = "failedOpen" THEN @.state ELSE "closed",
                 closes |-> @.closes + 1]],
     err |-> IF outcome = "ok" THEN "nil" ELSE "ErrClose"]

\* a Load that leaves the handle of a file it could not parse open
LoadParsedNoClose(st, h, index, parseOk, outcome) ==
    IF parseOk THEN [st EXCEPT !.commitGraph = index, !.file = h] ELSE st

\* CommitGraphIndex, after OpenFileIndex(file): the index and the handle are
\* cached, or the handle is closed (the error of Close is dropped)
LoadParsed(st, h, index, parseOk, outcome) ==
    IF parseOk THEN [st EXCEPT !.commitGraph = index, !.file = h]
    ELSE CloseHandle(st, h, outcome).st

\* CommitGraphStorage.CommitGraphIndex under the outcomes env of the calls it
\* makes: [st, err, idx, events]
LoadIndex(st, env) ==
    IF st.commitGraph # NoIndex
    THEN [st |-> st, err |-> "nil", idx |-> st.commitGraph, events |-> <<>>]
    ELSE IF ~(env.open /\ st.disk.exists)
    THEN [st |-> st, err |-> "ErrOpen", idx |-> NoIndex, events |-> <<"Open">>]
    ELSE LET h == Len(st.handles) + 1
             opened == [st EXCEPT !.handles =
                           Append(@, [state |-> "open", closes |-> 0])]
             parseOk == env.parse /\ st.disk.version # 0
             index == [handle |-> h, version |-> st.disk.version]
         IN  [st |-> LoadParsed(opened, h, index, parseOk, env.close),
              err |-> IF parseOk THEN "nil" ELSE "ErrParse",
              idx |-> IF parseOk THEN index ELSE NoIndex,
              events |-> IF parseOk THEN <<"Open", "OpenFileIndex">>
                         ELSE <<"Open", "OpenFileIndex", "Close">>]

\* a Store that closes the cached handle and keeps the cached index
StoreEvictKeepsCache(st, outcome) ==
    IF st.commitGraph = NoIndex THEN [st |-> st, err |-> "nil", events |-> <<>>]
    ELSE LET c == CloseHandle(st, st.file, outcome) IN
         [st |-> c.st, err |-> c.err, events |-> <<"Close">>]

\* SetCommitGraphIndex, "throw away existing commit graph": [st, err, events]
StoreEvict(st, outcome) ==
    IF st.commitGraph = NoIndex THEN [st |-> st, err |-> "nil", events |-> <<>>]
    ELSE LET c == CloseHandle(st, st.file, outcome) IN
         IF c.err # "nil" THEN [st |-> c.st, err |-> c.err, events |-> <<"Close">>]
         ELSE [st |-> [c.st EXCEPT !.commitGraph = NoIndex], err |-> "nil",
               events |-> <<"Close", "ClearCache">>]

\* CommitGraphStorage.SetCommitGraphIndex(index), the index of version v:
\* [st, err, events]
StoreIndex(st, v, env) ==
    LET e == StoreEvict(st, env.close) IN
    IF e.err # "nil" THEN e
    ELSE IF ~env.create
    THEN [st |-> e.st, err |-> "ErrCreate", events |-> Append(e.events, "Create")]
    ELSE [st |-> [e.st EXCEPT !.disk = [exists |-> TRUE,
                                         version |-> IF env.encode THEN v ELSE 0]],
          err |-> IF env.encode THEN "nil" ELSE "ErrEncode",
          events |-> e.events \o <<"Create", "Encode">>]

\* ------------------------------------------------------- the index at work
\* The record of the last call: Add(hash, node) with its error, or
\* ParentNode(node, i) with its error and the node it returned.
NoOp ==
    [op |-> "none", hash |-> ZeroHash, ParentHashes |-> <<>>, node |-> NilNode,
     i |-> 0, err |-> "nil", res |-> NilNode, got |-> <<>>,
     visited |-> <<>>, idx |-> NoIndex, events |-> <<>>,
     env |-> [open |-> TRUE, parse |-> TRUE, close |-> "ok", create |-> TRUE,
              encode |-> TRUE],
     cb |-> [at |-> 0, err |-> "nil"], facts |-> <<>>, walks |-> <<>>]

\* the ancestry in which every commit lists the commits right before it, newest
\* first, as far as MaxParents allows: commits with 0, 1, .. MaxParents parents
StackedParents(m) ==
    [c \in 1..m |->
        [k \in 1..(IF c - 1 < MaxParents THEN c - 1 ELSE MaxParents) |-> c - k]]

IndexInit ==
    /\ n = MaxCommits
    /\ parents = StackedParents(n)
    /\ tree = [c \in 1..n |-> DefaultTree]
    /\ when = [c \in 1..n |-> c]
    /\ bad = {}
    /\ commitData = <<>>
    /\ indexMap = <<>>
    /\ lastOp = NoOp
    /\ treePath = <<>>
    /\ paths = <<>>
    /\ run = IdleRun
    /\ iter = NoIter
    /\ cgs = NewStorage

\* a caller adds a node under any hash with any parent hashes
Add(hash, parentHashes) ==
    LET node == Node(IF hash \in 1..n THEN RootHash(tree[hash]) ELSE ZeroHash,
                     parentHashes, hash)
        r == AddNode(commitData, indexMap, hash, node)
    IN  /\ Len(commitData) < MaxNodes
        /\ commitData' = r.data
        /\ indexMap' = r.map
        /\ lastOp' = [NoOp EXCEPT !.op = "Add", !.hash = hash,
                                  !.ParentHashes = parentHashes, !.err = r.err]
        /\ UNCHANGED <<repoVars, iter, cgs, queryVars>>

\* the nodes a caller of the walker can hold: a commit decoded from the store,
\* or the node the walker returned last
HeldNodes ==
    {ObjectNode(c) : c \in 1..n}
        \cup (IF lastOp.op = "ParentNode" /\ lastOp.err = "nil"
              THEN {lastOp.res} ELSE {})

CallParentNode(node, i) ==
    LET r == ParentNode(commitData, indexMap, parents, node, i) IN
    /\ lastOp' = [NoOp EXCEPT !.op = "ParentNode", !.node = node, !.i = i,
                              !.err = r.err, !.res = r.node]
    /\ UNCHANGED <<repoVars, iter, cgs, indexVars, queryVars>>

\* a caller asks the index for the node at any position; got is the node
\* returned, if any
CallGetNodeByIndex(i) ==
    LET r == GetNodeByIndex(commitData, i) IN
    /\ lastOp' = [NoOp EXCEPT !.op = "GetNodeByIndex", !.i = i, !.err = r.err,
                              !.got = IF r.err = "nil"
                                      THEN <<commitData[r.pos + 1]>> ELSE <<>>]
    /\ UNCHANGED <<repoVars, iter, cgs, indexVars, queryVars>>

IndexNext ==
    \/ \E hash \in Hashes, ph \in ParentSeqs(Hashes) : Add(hash, ph)
    \/ \E node \in HeldNodes, i \in -1..MaxParents : CallParentNode(node, i)
    \/ \E i \in -1..MaxNodes : CallGetNodeByIndex(i)

SpecIndex == IndexInit /\ [][IndexNext]_vars

\* --------------------------------------------------- the iterator at work
\* the ancestry of IndexInit, complete or shallow: the parent of the root, or
\* the second parent of the newest commit, is a commit the store does not hold
IterRepos ==
    {StackedParents(MaxCommits),
     [StackedParents(MaxCommits) EXCEPT ![1] = <<MaxCommits + 1>>],
     [StackedParents(MaxCommits) EXCEPT
         ![MaxCommits] = <<MaxCommits - 1, MaxCommits + 1>>]}

IterInit ==
    /\ n = MaxCommits
    /\ parents \in IterRepos
    /\ tree = [c \in 1..n |-> DefaultTree]
    /\ when = [c \in 1..n |-> c]
    /\ bad = {}
    /\ commitData = <<>>
    /\ indexMap = <<>>
    /\ lastOp = NoOp
    /\ treePath = <<>>
    /\ paths = <<>>
    /\ run = IdleRun
    /\ iter = NoIter
    /\ cgs = NewStorage

\* the nodes a caller of the iterator can hold: a commit decoded from the
\* store, or a node the iterator yielded last
IterNodes ==
    {ObjectNode(c) : c \in 1..n}
        \cup (IF lastOp.op = "Next" /\ lastOp.err = "nil" THEN {lastOp.res} ELSE {})
        \cup Range(lastOp.visited)

\* gci.ParentNodes(node)
CallParentNodes(node) ==
    /\ iter' = NewParentIter(node)
    /\ lastOp' = [NoOp EXCEPT !.op = "ParentNodes", !.node = node]
    /\ UNCHANGED <<repoVars, indexVars, queryVars, cgs>>

\* iter.Next()
CallNext ==
    LET r == IterNext(commitData, indexMap, parents, iter) IN
    /\ iter.made
    /\ iter' = r.iter
    /\ lastOp' = [NoOp EXCEPT !.op = "Next", !.node = iter.node, !.i = iter.i,
                              !.err = r.err, !.res = r.node]
    /\ UNCHANGED <<repoVars, indexVars, queryVars, cgs>>

\* the callbacks passed to ForEach: one that fails on some invocation with the
\* stop signal or with an error of its own; an invocation past the last
\* parent never happens
Callbacks == [at : 1..(MaxParents + 1), err : {"ErrStop", "ErrCallback"}]

\* iter.ForEach(cb)
CallForEach(cb) ==
    LET r == ForEach(commitData, indexMap, parents, iter, cb, <<>>) IN
    /\ iter.made
    /\ iter' = r.iter
    /\ lastOp' = [NoOp EXCEPT !.op = "ForEach", !.node = iter.node, !.i = iter.i,
                              !.cb = cb, !.err = r.err, !.visited = r.visited]
    /\ UNCHANGED <<repoVars, indexVars, queryVars, cgs>>

IterStep ==
    \/ \E hash \in Hashes, ph \in ParentSeqs(Hashes) : Add(hash, ph)
    \/ \E node \in IterNodes : CallParentNodes(node)
    \/ CallNext
    \/ \E cb \in Callbacks : CallForEach(cb)

SpecIter == IterInit /\ [][IterStep]_vars

\* ----------------------------------------------------- the storage at work
\* The outcomes of the calls the storage makes outside itself: mmap.Open,
\* commitgraph.OpenFileIndex, (*mmap.ReaderAt).Close, Fs().Create and
\* Encoder.Encode.
Envs ==
    [open : BOOLEAN, parse : BOOLEAN, close : CloseOutcomes, create : BOOLEAN,
     encode : BOOLEAN]

\* the commit-graph file a repository may hold when the storage is made
Disks ==
    {[exists |-> FALSE, version |-> 0]}
        \cup {[exists |-> TRUE, version |-> v] : v \in 0..MaxVersions}

StorageInit ==
    /\ n = MaxCommits
    /\ parents = StackedParents(n)
    /\ tree = [c \in 1..n |-> DefaultTree]
    /\ when = [c \in 1..n |-> c]
    /\ bad = {}
    /\ commitData = <<>>
    /\ indexMap = <<>>
    /\ lastOp = NoOp
    /\ treePath = <<>>
    /\ paths = <<>>
    /\ run = IdleRun
    /\ iter = NoIter
    /\ \E d \in Disks : cgs = [NewStorage EXCEPT !.disk = d]

\* s.CommitGraphIndex()
Load(env) ==
    LET r == LoadIndex(cgs, env) IN
    /\ Len(r.st.handles) <= MaxHandles
    /\ cgs' = r.st
    /\ lastOp' = [NoOp EXCEPT !.op = "Load", !.err = r.err, !.idx = r.idx,
                              !.events = r.events, !.env = env]
    /\ UNCHANGED <<repoVars, indexVars, queryVars, iter>>

\* s.SetCommitGraphIndex(index), index of version v; idx is the index that
\* was cached when the call was made
Store(v, env) ==
    LET r == StoreIndex(cgs, v, env) IN
    /\ \A h \in 1..Len(r.st.handles) : r.st.handles[h].closes <= MaxCloses
    /\ cgs' = r.st
    /\ lastOp' = [NoOp EXCEPT !.op = "Store", !.i = v, !.err = r.err,
                              !.idx = cgs.commitGraph, !.events = r.events,
                              !.env = env]
    /\ UNCHANGED <<repoVars, indexVars, queryVars, iter>>

\* Load calls Open, OpenFileIndex and Close; Store calls Close, Create and
\* Encode: the outcomes of the calls an operation does not make are left out
LoadEnvs == {env \in Envs : env.create /\ env.encode}

StoreEnvs == {env \in Envs : env.open /\ env.parse}

StorageNext ==
    \/ \E env \in LoadEnvs : Load(env)
    \/ \E v \in 1..MaxVersions, env \in StoreEnvs : Store(v, env)

SpecStorage == StorageInit /\ [][StorageNext]_vars

\* ------------------------------------------------- the two walkers at work
\* Any ancestry; the index is filled by Add, parents before children, with
\* the nodes of the ancestry, and may hold only part of it.
WalkInit ==
    /\ n = MaxCommits
    /\ parents \in Ancestries(n)
    /\ tree = [c \in 1..n |-> DefaultTree]
    /\ when = [c \in 1..n |-> c]
    /\ bad = {}
    /\ commitData = <<>>
    /\ indexMap = <<>>
    /\ lastOp = NoOp
    /\ treePath = <<>>
    /\ paths = <<>>
    /\ run = IdleRun
    /\ iter = NoIter
    /\ cgs = NewStorage

\* Add(c, node of c) for a commit whose parents the index holds
AddCommit(c) ==
    LET r == AddNode(commitData, indexMap, c,
                     Node(RootHash(tree[c]), parents[c], when[c]))
    IN  /\ c \notin DOMAIN indexMap
        /\ \A k \in 1..Len(parents[c]) : parents[c][k] \in DOMAIN indexMap
        /\ commitData' = r.data
        /\ indexMap' = r.map
        /\ lastOp' = [NoOp EXCEPT !.op = "Add", !.hash = c,
                                  !.ParentHashes = parents[c], !.err = r.err]
        /\ UNCHANGED <<repoVars, iter, cgs, queryVars>>

\* the forms in which a caller of the graph-backed walker holds commit c
NodesOf(c) ==
    {ObjectNode(c)}
        \cup (IF c \in DOMAIN indexMap THEN {GraphNode(c, indexMap[c])} ELSE {})

\* a caller asks both walkers about one commit and walks its parents with
\* both: facts and walks hold the answers, the graph-backed walker's first
CallWalk(node) ==
    /\ lastOp' = [NoOp EXCEPT
                    !.op = "Walk", !.node = node,
                    !.facts = <<GraphFacts(commitData, parents, node),
                                ObjectOnlyFacts(parents, ObjectNode(node.hash))>>,
                    !.walks = <<WalkGraph(commitData, indexMap, parents, node, 0),
                                WalkObjectOnly(parents, ObjectNode(node.hash), 0)>>]
    /\ UNCHANGED <<repoVars, iter, cgs, indexVars, queryVars>>

WalkNext ==
    \/ \E c \in 1..n : AddCommit(c)
    \/ \E c \in 1..n : \E node \in NodesOf(c) : CallWalk(node)

SpecWalk == WalkInit /\ [][WalkNext]_vars

\* ------------------------------------------------------ the query at work
\* the queries: (treePath, paths), the paths distinct; <<>> is the tree itself
Queries ==
    {[tp |-> <<>>, ps |-> << <<"a">> >>],
     [tp |-> <<>>, ps |-> << <<>> >>],
     [tp |-> <<>>, ps |-> << <<"a">>, <<"d", "f">> >>],
     [tp |-> <<"d">>, ps |-> << <<>>, <<"f">> >>]}

\* the trees of the queried repositories: "d/f" is present or not
QueryTrees == {t \in Trees : t.f <= 1}

\* the sets of names a consulted filter may wrongly report: none, or all
FalsePositives == {{}, AllPaths}

SearchInit ==
    /\ n \in 1..MaxCommits
    /\ parents \in Ancestries(n)
    /\ tree \in [1..n -> QueryTrees]
    /\ when = [c \in 1..n |-> c]
    /\ bad = {}
    /\ commitData = <<>>
    /\ indexMap = <<>>
    /\ lastOp = NoOp
    /\ treePath = <<>>
    /\ paths = <<>>
    /\ run = IdleRun
    /\ iter = NoIter
    /\ cgs = NewStorage

\* the commit-graph is written from the commit top, before any query
WriteCommitGraph(top) ==
    LET b == BuildCommitGraph(top) IN
    /\ run.pc = "idle"
    /\ commitData = <<>>
    /\ b.err = "nil"
    /\ commitData' = b.data
    /\ indexMap' = b.map
    /\ UNCHANGED <<repoVars, iter, cgs, lastOp, queryVars>>

\* getLastCommitForPaths(index, c, treePath, paths) is called on the newest
\* commit and runs up to its loop
StartQuery(q) ==
    /\ run.pc = "idle"
    /\ treePath' = q.tp
    /\ paths' = q.ps
    /\ run' = StartRun(commitData, n, q.tp, q.ps)
    /\ UNCHANGED <<repoVars, iter, cgs, indexVars, lastOp>>

\* one iteration of the loop
QueryStep(k, fps) ==
    /\ run.pc = "loop"
    /\ k \in PopChoices(commitData, run.heap)
    /\ run' = StepRun(commitData, indexMap, run, k, treePath, TRUE, fps)
    /\ UNCHANGED <<repoVars, iter, cgs, indexVars, lastOp, treePath, paths>>

\* Pop finds the heap empty: post-processing and return
QueryFinish ==
    /\ run.pc = "loop"
    /\ run.heap = <<>>
    /\ run' = FinishRun(run)
    /\ UNCHANGED <<repoVars, iter, cgs, indexVars, lastOp, treePath, paths>>

SearchNext ==
    \/ \E top \in 1..n : WriteCommitGraph(top)
    \/ \E q \in Queries : StartQuery(q)
    \/ \E k \in 1..(MaxCommits * MaxParents + 1), fps \in FalsePositives : QueryStep(k, fps)
    \/ QueryFinish

SpecSearch == SearchInit /\ [][SearchNext]_vars

\* the loop runs on: an iteration is taken while the heap holds an entry, and
\* the function returns once Pop finds it empty.  The weak fairness of the
\* iteration is written out, WF_vars(A) being []<>~ENABLED <<A>>_vars \/
\* []<><<A>>_vars: an iteration is enabled exactly when the loop holds an entry.
IterationEnabled == run.pc = "loop" /\ run.heap # <<>>

Iteration ==
    \E k \in 1..(MaxCommits * MaxParents + 1), fps \in FalsePositives :
        QueryStep(k, fps)

SpecSearchFair ==
    /\ SpecSearch
    /\ ([]<>(~IterationEnabled) \/ []<><<Iteration>>_vars)
    /\ WF_vars(QueryFinish)

\* repositories over every tree, for the index builder alone
BuildInit ==
    /\ n \in 1..MaxCommits
    /\ parents = StackedParents(n)
    /\ tree \in [1..n -> Trees]
    /\ when = [c \in 1..n |-> c]
    /\ bad = {}
    /\ commitData = <<>>
    /\ indexMap = <<>>
    /\ lastOp = NoOp
    /\ treePath = <<>>
    /\ paths = <<>>
    /\ run = IdleRun
    /\ iter = NoIter
    /\ cgs = NewStorage

BuildNext == \E top \in 1..n : WriteCommitGraph(top)

SpecBuild == BuildInit /\ [][BuildNext]_vars

\* the latest commit time a committer's clock writes
MaxTime == 2

\* the trees of the repositories with skewed clocks or unreadable trees
PlainTrees == {t \in Trees : t.a \in {1, 2} /\ t.f = 0}

\* repositories whose committers' clocks are free: Committer.When is whatever
\* the committer wrote, a parent may carry a later time than its child
SkewInit ==
    /\ n \in 1..MaxCommits
    /\ parents \in Ancestries(n)
    /\ tree \in [1..n -> PlainTrees]
    /\ when \in [1..n -> 1..MaxTime]
    /\ bad = {}
    /\ commitData = <<>>
    /\ indexMap = <<>>
    /\ lastOp = NoOp
    /\ treePath = <<>>
    /\ paths = <<>>
    /\ run = IdleRun
    /\ iter = NoIter
    /\ cgs = NewStorage

SpecSkew == SkewInit /\ [][SearchNext]_vars

\* repositories in which some tree objects cannot be decoded
FailInit ==
    /\ n \in 1..MaxCommits
    /\ parents \in Ancestries(n)
    /\ tree \in [1..n -> PlainTrees]
    /\ when = [c \in 1..n |-> c]
    /\ bad \in SUBSET {RootHash(tree[c]) : c \in 1..n}
    /\ commitData = <<>>
    /\ indexMap = <<>>
    /\ lastOp = NoOp
    /\ treePath = <<>>
    /\ paths = <<>>
    /\ run = IdleRun
    /\ iter = NoIter
    /\ cgs = NewStorage

SpecFail == FailInit /\ [][SearchNext]_vars

\* ------------------------------------- the query on reconverging branches
\* the ancestry in which the newest commit merges the MaxParents commits
\* before it and each of those has the oldest commit as its only parent
FanParents(m) ==
    [c \in 1..m |->
        IF c = 1 THEN <<>>
        ELSE IF c < m THEN <<1>>
        ELSE [k \in 1..(IF m - 2 < MaxParents THEN m - 2 ELSE MaxParents) |-> m - k]]

\* trees in which "a" and "d/f" are present or absent, with one content each
PresenceTrees == {t \in Trees : t.a <= 1 /\ t.f <= 1}

DiamondInit ==
    /\ n = MaxCommits + 1
    /\ parents = FanParents(n)
    /\ tree \in [1..n -> PresenceTrees]
    /\ when = [c \in 1..n |-> c]
    /\ bad = {}
    /\ commitData = <<>>
    /\ indexMap = <<>>
    /\ lastOp = NoOp
    /\ treePath = <<>>
    /\ paths = <<>>
    /\ run = IdleRun
    /\ iter = NoIter
    /\ cgs = NewStorage

SpecDiamond == DiamondInit /\ [][SearchNext]_vars

\* ------------------------------------------------ the index builder at work
\* every acyclic ancestry over the commits 1..m: parents are older commits;
\* a commit need not be an ancestor of the newest one
AcyclicAncestries(m) ==
    {par \in [1..m -> ParentSeqs(1..m)] :
        \A c \in 1..m : \A k \in 1..Len(par[c]) : par[c][k] < c}

OrderInit ==
    /\ n \in 1..MaxCommits
    /\ parents \in AcyclicAncestries(n)
    /\ tree \in [1..n -> PresenceTrees]
    /\ when = [c \in 1..n |-> c]
    /\ bad = {}
    /\ commitData = <<>>
    /\ indexMap = <<>>
    /\ lastOp = NoOp
    /\ treePath = <<>>
    /\ paths = <<>>
    /\ run = IdleRun
    /\ iter = NoIter
    /\ cgs = NewStorage

\* idx, err := buildCommitGraph(commit): a new index every time, kept
\* whatever the error
CallBuildCommitGraph(top) ==
    LET b == BuildCommitGraph(top) IN
    /\ commitData' = b.data
    /\ indexMap' = b.map
    /\ lastOp' = [NoOp EXCEPT !.op = "Build", !.hash = top, !.err = b.err]
    /\ UNCHANGED <<repoVars, iter, cgs, queryVars>>

OrderNext == \E top \in 1..n : CallBuildCommitGraph(top)

SpecOrder == OrderInit /\ [][OrderNext]_vars

\* ------------------------------------------------------- claims on the index

\* C1: Add(hash, node) fails with the not-found error whenever a hash of
\* node.ParentHashes is not in the index; otherwise it succeeds and afterwards
\* node.ParentIndexes is as long as node.ParentHashes and ParentIndexes[i] is
\* the position GetIndexByHash returns for ParentHashes[i].
C1_AddMirrorsParentHashes ==
    [][lastOp'.op = "Add" =>
        LET ph == lastOp'.ParentHashes IN
        IF \E k \in 1..Len(ph) : ph[k] \notin DOMAIN indexMap
        THEN lastOp'.err = "ErrObjectNotFound"
        ELSE /\ lastOp'.err = "nil"
             /\ LET node == commitData'[Len(commitData')] IN
                /\ Len(node.ParentIndexes) = Len(ph)
                /\ \A k \in 1..Len(ph) :
                      GetIndexByHash(indexMap', ph[k]) =
                          [err |-> "nil", pos |-> node.ParentIndexes[k]]]_vars

\* C2: the position GetIndexByHash returns for a hash is the same in every
\* later state as right after the hash was first added, also when Add is
\* passed a hash that is already present.
C2_PositionStable ==
    [][\A h \in DOMAIN indexMap :
          GetIndexByHash(indexMap', h) = GetIndexByHash(indexMap, h)]_vars

\* C10: for a decoded commit and 0 <= i < number of its parent hashes,
\* ParentNode returns an index-backed node when ParentHashes[i] is in the graph
\* index and otherwise the commit decoded from the store; the node's ID is
\* ParentHashes[i] and the result is never the parent-not-found condition.
C10_FallbackSeam ==
    (/\ lastOp.op = "ParentNode"
     /\ lastOp.node.kind = "object"
     /\ lastOp.i \in 0..(Len(parents[lastOp.node.hash]) - 1))
    => LET h == parents[lastOp.node.hash][lastOp.i + 1] IN
       /\ lastOp.err = "nil"
       /\ lastOp.res.hash = h
       /\ IF h \in DOMAIN indexMap
          THEN lastOp.res = GraphNode(h, indexMap[h])
          ELSE lastOp.res = ObjectNode(h)

\* a decoded commit's parent that a non-empty graph index lacks was resolved
\* from the object store
C10_Witness ==
    /\ lastOp.op = "ParentNode"
    /\ lastOp.node.kind = "object"
    /\ lastOp.i \in 0..(Len(parents[lastOp.node.hash]) - 1)
    /\ parents[lastOp.node.hash][lastOp.i + 1] \notin DOMAIN indexMap
    /\ DOMAIN indexMap # {}
    /\ lastOp.res.kind = "object"

\* ------------------------------------------------------ claims on the search
\* the hash the commit c holds at the path p below treePath tp, ZeroHash when it
\* holds none; the empty path below the empty treePath is the root tree
HashAt(c, tp, p) ==
    IF tp \o p = <<>> THEN RootHash(tree[c]) ELSE FindEntry(tree[c], tp \o p)

\* C3: every path of the returned mapping that the starting commit holds is
\* mapped to the starting commit or one of its ancestors, whose tree holds the
\* path with the hash the starting commit holds, and none of whose parents
\* holds the path with that hash.
C3_MostRecentIntroduction ==
    (run.pc = "done" /\ run.err = "nil") =>
        \A p \in DOMAIN run.result :
            LET c == run.result[p]
                h == HashAt(n, treePath, p)
            IN  h # ZeroHash =>
                    /\ c \in AncestorsOf(parents, n)
                    /\ HashAt(c, treePath, p) = h
                    /\ \A k \in 1..Len(parents[c]) :
                           HashAt(parents[c][k], treePath, p) # h

\* C4: within one invocation, no commit is popped with a commit time strictly
\* greater than that of a commit popped before it, whatever the commit times.
C4_PopOrder ==
    \A i, j \in 1..Len(run.popped) : i < j => run.popped[j] <= run.popped[i]

\* C5: once getFileHashes has failed on a parent, the invocation is over, with
\* an error and without a result mapping.
C5_FailureAborts ==
    run.failed => /\ run.pc = "done"
                  /\ run.err # "nil"
                  /\ DOMAIN run.result = {}

\* what the invocation r returns when canSkipCommit always answers false: one
\* [err, result] for every order in which Pop may take entries of equal time
RECURSIVE GeneralOutcomes(_, _, _, _)
GeneralOutcomes(data, map, r, tp) ==
    IF r.pc = "done" THEN {[err |-> r.err, result |-> r.result]}
    ELSE IF r.heap = <<>>
    THEN LET f == FinishRun(r) IN {[err |-> f.err, result |-> f.result]}
    ELSE UNION {GeneralOutcomes(data, map,
                                StepRun(data, map, r, k, tp, FALSE, {}), tp) :
                    k \in PopChoices(data, r.heap)}

\* C6: with filters built by createBloomFilter against the first parent, what
\* getLastCommitForPaths returns with the fast path is what it returns when
\* canSkipCommit always answers false, the empty path included.
C6_FastPathPure ==
    run.pc = "done" =>
        [err |-> run.err, result |-> run.result]
            \in GeneralOutcomes(commitData, indexMap,
                                StartRun(commitData, n, treePath, paths), treePath)

ParentsWithPath(c, tp, p) ==
    {k \in 1..Len(parents[c]) : HashAt(parents[c][k], tp, p) # ZeroHash}

\* C8: after a general-case step on a commit M, an active path that more than
\* one parent of M holds is not recorded for M, whether or not a parent's hash
\* differs from the hash at M, and for every parent that holds it and has not
\* been visited an entry with that parent and that path was pushed.
C8_MergeDeferral ==
    run.last.kind = "general" =>
        LET M == run.last.commit.hash IN
        \A p \in Range(run.last.paths) :
            Cardinality(ParentsWithPath(M, treePath, p)) > 1 =>
                /\ p \notin run.last.recorded
                /\ p \in DOMAIN run.resultNodes => run.resultNodes[p].hash # M
                /\ \A k \in ParentsWithPath(M, treePath, p) :
                       parents[M][k] \notin run.seen =>
                           \E e \in 1..Len(run.last.pushed) :
                               /\ run.last.pushed[e].commit.hash = parents[M][k]
                               /\ p \in Range(run.last.pushed[e].paths)
                               /\ \E x \in 1..Len(run.heap) :
                                      run.heap[x] = run.last.pushed[e]

\* a merge whose path is held by two unvisited parents, one with the hash at
\* the merge and one with another hash, and both got an entry
C8_Witness ==
    /\ run.last.kind = "general"
    /\ \E p \in Range(run.last.paths) :
           LET M == run.last.commit.hash IN
           /\ Cardinality(ParentsWithPath(M, treePath, p)) > 1
           /\ \E k \in ParentsWithPath(M, treePath, p) :
                  HashAt(parents[M][k], treePath, p) # HashAt(M, treePath, p)
           /\ \E k \in ParentsWithPath(M, treePath, p) :
                  HashAt(parents[M][k], treePath, p) = HashAt(M, treePath, p)
           /\ Len(run.last.pushed) > 1
           /\ p \notin run.last.recorded

\* every commit has at most one parent
Linear == \A c \in 1..n : Len(parents[c]) <= 1

\* on a linear history, the nearest commit at or before c whose hash for the
\* path differs from its parent's, or that has no parent
RECURSIVE Nearest(_, _, _)
Nearest(c, tp, p) ==
    IF parents[c] = <<>> THEN c
    ELSE IF HashAt(parents[c][1], tp, p) # HashAt(c, tp, p) THEN c
    ELSE Nearest(parents[c][1], tp, p)

\* C9: on a linear history with commit times decreasing towards the root,
\* every requested path that the starting commit holds is mapped to the
\* nearest commit at or before it that changed or created the path.
C9_LinearHistory ==
    (Linear /\ run.pc = "done" /\ run.err = "nil") =>
        \A k \in 1..Len(paths) :
            HashAt(n, treePath, paths[k]) # ZeroHash =>
                /\ paths[k] \in DOMAIN run.result
                /\ run.result[paths[k]] = Nearest(n, treePath, paths[k])

\* --------------------------------------------- claims on positions out of range
\* C11: ParentNode(node, i) returns the parent-not-found error, and no node,
\* for every i that is negative or not less than the number of the node's
\* parents, for index-backed nodes and for decoded commits.
C11_OutOfRangeParent ==
    (/\ lastOp.op = "ParentNode"
     /\ \/ lastOp.i < 0
        \/ lastOp.i >= NumParents(commitData, parents, lastOp.node))
    => /\ lastOp.err = "ErrParentNotFound"
       /\ lastOp.res = NilNode

\* C17: GetNodeByIndex(position) returns the not-found error for every
\* position below 0 and every position from the number of nodes on, and the
\* node appended at the position otherwise.
C17_OutOfRangePosition ==
    lastOp.op = "GetNodeByIndex" =>
        IF lastOp.i < 0 \/ lastOp.i >= Len(commitData)
        THEN lastOp.err = "ErrObjectNotFound" /\ lastOp.got = <<>>
        ELSE lastOp.err = "nil" /\ lastOp.got = <<commitData[lastOp.i + 1]>>

\* ------------------------------------------------- claims on the iterator
\* the lookup of the parent hash h of the node succeeds: an index-backed node
\* reads the position it recorded, a decoded commit finds h in the graph
\* index or in the object store
LookupSucceeds(node, h) ==
    node.kind = "graph" \/ h \in DOMAIN indexMap \/ h \in 1..n

\* C12: an iterator starts before the first parent; a Next at position i with
\* a parent left returns the parent with ID ParentHashes[i] and moves on when
\* the lookup succeeds, and returns the lookup's error without moving when it
\* fails; a Next with no parent left returns end-of-sequence and stays.
C12_IteratorOrder ==
    [][/\ lastOp'.op = "ParentNodes" =>
            iter'.i = 0 /\ iter'.node = lastOp'.node
       /\ lastOp'.op = "Next" =>
            LET hashes == ParentHashesOf(commitData, parents, iter.node) IN
            IF iter.i >= Len(hashes)
            THEN /\ lastOp'.err = "EOF"
                 /\ lastOp'.res = NilNode
                 /\ iter' = iter
            ELSE IF LookupSucceeds(iter.node, hashes[iter.i + 1])
            THEN /\ lastOp'.err = "nil"
                 /\ lastOp'.res.hash = hashes[iter.i + 1]
                 /\ iter' = [iter EXCEPT !.i = @ + 1]
            ELSE /\ lastOp'.err \notin {"nil", "EOF", "ErrParentNotFound"}
                 /\ lastOp'.res = NilNode
                 /\ iter' = iter]_vars

\* end-of-sequence after both parents of a merge were yielded
C12_Witness ==
    /\ lastOp.op = "Next"
    /\ lastOp.err = "EOF"
    /\ iter.i = 2
    /\ Len(ParentHashesOf(commitData, parents, iter.node)) = 2

\* C13: ForEach on an iterator whose lookups succeed: a callback that returns
\* the stop signal on its k-th invocation makes ForEach return no error after
\* exactly k invocations; one that returns another error makes ForEach return
\* that error after that invocation; one that never fails is invoked once
\* per parent, in order, and ForEach returns no error.
C13_ForEachStops ==
    [][lastOp'.op = "ForEach" =>
        LET hashes == ParentHashesOf(commitData, parents, iter.node)
            left == Len(hashes) - iter.i
            cb == lastOp'.cb
            calls == IF cb.at <= left THEN cb.at ELSE left
            visited == lastOp'.visited
        IN  (\A j \in 1..calls : LookupSucceeds(iter.node, hashes[iter.i + j]))
            => /\ Len(visited) = calls
               /\ \A j \in 1..calls : visited[j].hash = hashes[iter.i + j]
               /\ lastOp'.err = IF cb.at <= left /\ cb.err # "ErrStop"
                                THEN cb.err ELSE "nil"]_vars

\* a callback stopped a fresh iterator over two parents after the first one
C13_Witness ==
    /\ lastOp.op = "ForEach"
    /\ lastOp.cb = [at |-> 1, err |-> "ErrStop"]
    /\ lastOp.i = 0
    /\ Len(ParentHashesOf(commitData, parents, lastOp.node)) = 2
    /\ Len(lastOp.visited) = 1
    /\ lastOp.err = "nil"


\* ------------------------------------------------- claims on the storage
\* C14: Load with an index cached returns that index and opens nothing.  With
\* nothing cached it opens the file; when mmap.Open fails the error is returned
\* and nothing changes; when the file parses, the index returned and the new
\* handle, still open, are cached; when it does not parse, Close is called on
\* the new handle (which is closed unless Close itself failed to unmap it),
\* nothing is cached and the error is returned, and the Load after that one
\* opens the file again.
C14_LoadCaches ==
    [][lastOp'.op = "Load" =>
         LET env == lastOp'.env
             h == Len(cgs.handles) + 1
         IN
         /\ IF cgs.commitGraph # NoIndex
            THEN /\ lastOp'.err = "nil"
                 /\ lastOp'.idx = cgs.commitGraph
                 /\ lastOp'.events = <<>>
                 /\ cgs' = cgs
            ELSE /\ lastOp'.events # <<>>
                 /\ lastOp'.events[1] = "Open"
                 /\ IF ~(env.open /\ cgs.disk.exists)
                    THEN /\ lastOp'.err = "ErrOpen"
                         /\ lastOp'.idx = NoIndex
                         /\ cgs' = cgs
                    ELSE /\ Len(cgs'.handles) = h
                         /\ cgs'.disk = cgs.disk
                         /\ IF env.parse /\ cgs.disk.version # 0
                            THEN /\ lastOp'.err = "nil"
                                 /\ lastOp'.idx =
                                       [handle |-> h, version |-> cgs.disk.version]
                                 /\ cgs'.commitGraph = lastOp'.idx
                                 /\ cgs'.file = h
                                 /\ cgs'.handles[h] =
                                       [state |-> "open", closes |-> 0]
                            ELSE /\ lastOp'.err = "ErrParse"
                                 /\ lastOp'.idx = NoIndex
                                 /\ cgs'.commitGraph = NoIndex
                                 /\ cgs'.file = cgs.file
                                 /\ cgs'.handles[h].closes = 1
                                 /\ (env.close # "failedOpen"
                                       => cgs'.handles[h].state = "closed")
         /\ (lastOp.op = "Load" /\ lastOp.err = "ErrParse")
               => (lastOp'.events # <<>> /\ lastOp'.events[1] = "Open")
    ]_vars

\* C14 witness: a Load that opened the file, could not parse it, closed the
\* handle and cached nothing
C14_Witness ==
    /\ lastOp.op = "Load"
    /\ lastOp.err = "ErrParse"
    /\ lastOp.events = <<"Open", "OpenFileIndex", "Close">>
    /\ cgs.commitGraph = NoIndex
    /\ cgs.handles[Len(cgs.handles)] = [state |-> "closed", closes |-> 1]

\* C15: Store with an index cached calls Close on the cached handle before
\* anything else; when Close fails, Store returns that error and the file on
\* disk is left as it was (neither created nor written); when Close succeeds
\* the cache is cleared before the file is created and written.  The Load
\* right after a Store that returned nil opens the file and does not return
\* the index that was cached before the Store.
C15_StoreEvicts ==
    [][/\ lastOp'.op = "Store" =>
            LET ev == lastOp'.events IN
            IF cgs.commitGraph # NoIndex
            THEN /\ ev # <<>>
                 /\ ev[1] = "Close"
                 /\ cgs'.handles[cgs.file].closes
                       = cgs.handles[cgs.file].closes + 1
                 /\ IF lastOp'.env.close # "ok"
                    THEN /\ lastOp'.err = "ErrClose"
                         /\ ev = <<"Close">>
                         /\ cgs'.disk = cgs.disk
                    ELSE /\ cgs'.commitGraph = NoIndex
                         /\ cgs'.handles[cgs.file].state = "closed"
                         /\ Len(ev) >= 3
                         /\ ev[2] = "ClearCache"
                         /\ ev[3] = "Create"
                         /\ \A k \in 1..Len(ev) : ev[k] = "Encode" => k > 3
            ELSE /\ ev # <<>>
                 /\ ev[1] = "Create"
                 /\ cgs'.handles = cgs.handles
       /\ (lastOp.op = "Store" /\ lastOp.err = "nil" /\ lastOp'.op = "Load")
            => /\ lastOp'.events # <<>>
               /\ lastOp'.events[1] = "Open"
               /\ lastOp.idx # NoIndex => lastOp'.idx # lastOp.idx
    ]_vars

\* C15 witness: a Store that found an index cached, closed its handle, cleared
\* the cache and wrote the file
C15_Witness ==
    /\ lastOp.op = "Store"
    /\ lastOp.err = "nil"
    /\ lastOp.idx # NoIndex
    /\ lastOp.events = <<"Close", "ClearCache", "Create", "Encode">>
    /\ cgs.commitGraph = NoIndex
    /\ cgs.handles[lastOp.idx.handle].state = "closed"
    /\ cgs.disk = [exists |-> TRUE, version |-> lastOp.i]

\* the handles Load opened that are still mapped
OpenHandles(st) ==
    {h \in 1..Len(st.handles) : st.handles[h].state = "open"}

\* C20: at most one handle is open, a cached index has its handle open, no
\* handle has had Close called on it twice, and every handle is the cached
\* one or is closed.
C20_HandleLifecycle ==
    /\ Cardinality(OpenHandles(cgs)) <= 1
    /\ cgs.commitGraph # NoIndex => cgs.file \in OpenHandles(cgs)
    /\ \A h \in 1..Len(cgs.handles) : cgs.handles[h].closes <= 1
    /\ \A h \in 1..Len(cgs.handles) :
          \/ cgs.commitGraph # NoIndex /\ h = cgs.file
          \/ cgs.handles[h].state = "closed"

\* C20 counterexample: a Store whose Close failed after the mapping was gone
\* returns with the index still cached over the closed handle
C20_CachedOverClosed ==
    /\ lastOp.op = "Store"
    /\ lastOp.err = "ErrClose"
    /\ cgs.commitGraph # NoIndex
    /\ cgs.handles[cgs.file].state = "closed"


\* ---------------------------------------------- claims on the two walkers
\* C16: with the index built by Add in topological order from the ancestry,
\* the graph-backed walker (on an index-backed node or on a decoded commit)
\* and the object-only walker give the same NumParents, the same ParentHashes
\* and a Commit with the same hash for every commit, both equal to what the
\* ancestry says, and a walk of the parents from the same commit visits the
\* same sequence of commit hashes under both.
C16_DualBacking ==
    lastOp.op = "Walk" =>
        /\ lastOp.facts[1] = lastOp.facts[2]
        /\ lastOp.facts[1] =
              [NumParents |-> Len(parents[lastOp.node.hash]),
               ParentHashes |-> parents[lastOp.node.hash],
               Commit |-> [err |-> "nil", hash |-> lastOp.node.hash]]
        /\ lastOp.walks[1] = lastOp.walks[2]
        /\ ZeroHash \notin Range(lastOp.walks[1])

\* C16 witness: a walk from a decoded merge commit over an index that holds
\* one of its parents and lacks the other
C16_Witness ==
    /\ lastOp.op = "Walk"
    /\ lastOp.node.kind = "object"
    /\ Len(parents[lastOp.node.hash]) = 2
    /\ parents[lastOp.node.hash][1] \notin DOMAIN indexMap
    /\ parents[lastOp.node.hash][2] \in DOMAIN indexMap
    /\ Len(lastOp.walks[1]) >= 2


\* ------------------------------------------------ claims on termination
\* the parent edges of the commits in S
RECURSIVE EdgesOf(_)
EdgesOf(S) ==
    IF S = {} THEN 0
    ELSE LET c == CHOOSE x \in S : TRUE IN Len(parents[c]) + EdgesOf(S \ {c})

\* C18: in every invocation the entries ever pushed (those popped and those
\* still in the heap) number at most one plus the parent edges of the commits
\* processed; an iteration whose entry names a visited hash skips it, touching
\* neither the visited set, the result nor the heap, and any other iteration
\* marks the hash visited and pushes at most one entry per parent of that
\* commit, so each hash is processed at most once; and the loop, once
\* entered, is left: the invocation returns.
C18_Terminates ==
    /\ [](run.pc # "idle" =>
             Len(run.heap) + Len(run.popped) <= 1 + EdgesOf(run.seen))
    /\ [][(run.pc = "loop" /\ Len(run'.popped) = Len(run.popped) + 1) =>
             LET h == run'.last.commit.hash IN
             IF h \in run.seen
             THEN /\ run'.last.kind = "seen"
                  /\ run'.seen = run.seen
                  /\ run'.resultNodes = run.resultNodes
                  /\ Len(run'.heap) = Len(run.heap) - 1
             ELSE /\ run'.last.kind \in {"general", "skip"}
                  /\ run'.seen = run.seen \cup {h}
                  /\ Len(run'.heap) <= Len(run.heap) - 1 + Len(parents[h])
       ]_vars
    /\ (run.pc = "loop") ~> (run.pc = "done")

\* C18 witness: an invocation that returned after it processed every commit
\* of the ancestry and skipped an entry whose hash was already visited
C18_Witness ==
    /\ run.pc = "done"
    /\ run.err = "nil"
    /\ run.seen = 1..MaxCommits
    /\ Len(run.popped) > Cardinality(run.seen)

\* ----------------------------------------------- claims on completeness
\* C19: an invocation in which every lookup succeeded returns a mapping that
\* has a key for every requested path the tree of the starting commit holds.
C19_Complete ==
    (run.pc = "done" /\ run.err = "nil") =>
        \A k \in 1..Len(paths) :
            HashAt(n, treePath, paths[k]) # ZeroHash
                => paths[k] \in DOMAIN run.result

\* C19 counterexample: with no commit-graph written, the newest commit holds
\* "a" and "d/f", each of its two parents holds one of them, the oldest commit
\* holds both unchanged; both are requested and one is missing from the result
C19_LostPath ==
    /\ run.pc = "done"
    /\ run.err = "nil"
    /\ commitData = <<>>
    /\ Len(parents[n]) = 2
    /\ tree[n] = [a |-> 1, f |-> 1]
    /\ tree[parents[n][1]] = [a |-> 1, f |-> 0]
    /\ tree[parents[n][2]] = [a |-> 0, f |-> 1]
    /\ tree[1] = [a |-> 1, f |-> 1]
    /\ paths = << <<"a">>, <<"d", "f">> >>
    /\ Cardinality(DOMAIN run.result) = 1


\* ---------------------------------------------- claims on the build order
\* C21: buildCommitGraph on a commit of an acyclic, fully decodable ancestry
\* returns no error; the index holds every commit reachable from the start
\* and no other, each once (as many nodes as commits, at distinct positions);
\* every node lists its commit's parent hashes and the positions of those
\* parents, and each of these positions is strictly smaller than the node's
\* own, the position being the order in which Add was called.
C21_BuildOrder ==
    lastOp.op = "Build" =>
        LET reach == AncestorsOf(parents, lastOp.hash) IN
        /\ lastOp.err = "nil"
        /\ DOMAIN indexMap = reach
        /\ Len(commitData) = Cardinality(reach)
        /\ \A c, d \in reach : c # d => indexMap[c] # indexMap[d]
        /\ \A c \in reach :
              LET node == commitData[indexMap[c] + 1] IN
              /\ node.ParentHashes = parents[c]
              /\ Len(node.ParentIndexes) = Len(parents[c])
              /\ \A k \in 1..Len(parents[c]) :
                    /\ node.ParentIndexes[k] = indexMap[parents[c][k]]
                    /\ node.ParentIndexes[k] < indexMap[c]

\* C21 witness: the index built from a merge whose second parent is also the
\* parent of its first parent, so the oldest commit is reached twice
C21_Witness ==
    /\ lastOp.op = "Build"
    /\ lastOp.err = "nil"
    /\ n = 3
    /\ lastOp.hash = 3
    /\ parents = << <<>>, <<1>>, <<2, 1>> >>
    /\ Len(commitData) = 3
    /\ indexMap[1] = 0
    /\ commitData[indexMap[3] + 1].ParentIndexes = <<1, 0>>

====
